---- MODULE Spec2Model ----
(***************************************************************************)
(* UltraStarAutoPitch (main.py): the pipeline                              *)
(*   loadFile -> loadAudio -> prepareAudio -> analyze -> pitch -> writeFile*)
(* as a state machine.                                                     *)
(*                                                                         *)
(* Text is modelled character by character: a Python str is a sequence of  *)
(* one-character strings, so that split(" "), slicing and concatenation    *)
(* are computed as the code computes them.                                 *)
(*                                                                         *)
(* Numbers: floats are exact fixed-point rationals.                        *)
(*   float(line[5:])      value * 10          (one decimal digit kept)     *)
(*   pitch, uncertainty   value * 1000, value * 100                        *)
(*   tps                  the pair <<numerator, denominator>>              *)
(*   a frequency in Hz    12*log2(hz/FMIN) * 100000 (the cqt bin), the     *)
(*                        only form in which pitch2hz's result is used     *)
(***************************************************************************)
EXTENDS Integers, Sequences, FiniteSets, TLC

(* ------------------------------ bounds -------------------------------- *)
MaxLines == 3
MaxFrames == 19

(* ------------------------- program constants -------------------------- *)
\* args.confidence default 0.85, in hundredths
DefaultConfidence == 85
\* PT_OFFSET = 25.58, in 1/100000 of a cqt bin
PT_OFFSET == 2558000
\* PT_SLOPE = 63.07, in 1/100 (pitch is in 1/1000, the product in 1/100000)
PT_SLOPE == 6307
\* 12*log2(FMIN * 4/55 * 2^(3/4)) = 3.4868206 with FMIN = 10.0, in 1/100000
NoteOffset == 348682
\* the shift of the MIDI scale ("- 60")
MidiShift == 60
\* the frame hop in milliseconds ("* 1000/32")
FrameMs == 32

(* --------------------------- Python helpers --------------------------- *)
Digits == <<"0", "1", "2", "3", "4", "5", "6", "7", "8", "9">>

IsDigit(c) == \E d \in 1..10 : Digits[d] = c

DigitVal(c) == (CHOOSE d \in 1..10 : Digits[d] = c) - 1

IsSpaceChar(c) == c \in {" ", "\n", "\t", "\r"}

\* s[a:b] for 0 <= a, Python half-open slice of a str / list (0-based)
PySlice(s, a, b) ==
    LET hi == IF b > Len(s) THEN Len(s) ELSE b
    IN  IF a >= hi THEN <<>> ELSE SubSeq(s, a + 1, hi)

RECURSIVE Flatten(_)
\* "".join(list of str): what writelines puts in the file
Flatten(ss) == IF ss = <<>> THEN <<>> ELSE Head(ss) \o Flatten(Tail(ss))

RECURSIVE SplitAcc(_, _, _)
SplitAcc(s, cur, acc) ==
    IF s = <<>> THEN Append(acc, cur)
    ELSE IF Head(s) = " " THEN SplitAcc(Tail(s), <<>>, Append(acc, cur))
    ELSE SplitAcc(Tail(s), Append(cur, Head(s)), acc)

\* line.split(" "): one token per single space, empty tokens kept
Split(line) == SplitAcc(line, <<>>, <<>>)

\* s.startswith(c) for a one-character c
StartsWith(s, c) == Len(s) >= 1 /\ s[1] = c

RECURSIVE Strip(_)
\* float() and int() ignore surrounding whitespace; only trailing occurs here
Strip(s) ==
    IF s # <<>> /\ IsSpaceChar(s[Len(s)]) THEN Strip(SubSeq(s, 1, Len(s) - 1))
    ELSE s

RECURSIVE DigitsVal(_)
DigitsVal(s) ==
    IF s = <<>> THEN 0
    ELSE 10 * DigitsVal(SubSeq(s, 1, Len(s) - 1)) + DigitVal(s[Len(s)])

AllDigits(s) == s # <<>> /\ \A i \in 1..Len(s) : IsDigit(s[i])

\* int(token): <<value>>, or <<>> when Python raises ValueError
PyInt(tok) ==
    LET s == Strip(tok) IN IF AllDigits(s) THEN <<DigitsVal(s)>> ELSE <<>>

\* float(text) in tenths: <<value*10>>, or <<>> when Python raises ValueError.
\* Decimal literals with at most one fractional digit are represented.
PyFloat(text) ==
    LET s == Strip(text)
        dots == {i \in 1..Len(s) : s[i] = "."}
    IN  IF dots = {} THEN
            IF AllDigits(s) THEN <<10 * DigitsVal(s)>> ELSE <<>>
        ELSE LET d == CHOOSE i \in dots : TRUE
                 ip == SubSeq(s, 1, d - 1)
                 fp == SubSeq(s, d + 1, Len(s))
             IN  IF Cardinality(dots) = 1 /\ AllDigits(ip) /\ AllDigits(fp)
                    /\ Len(fp) = 1
                 THEN <<10 * DigitsVal(ip) + DigitsVal(fp)>>
                 ELSE <<>>

\* int(x) of the rational n/d, d > 0: truncation toward zero
Trunc(n, d) == IF n >= 0 THEN n \div d ELSE -((-n) \div d)

RECURSIVE NatStr(_)
NatStr(n) ==
    IF n < 10 THEN <<Digits[n + 1]>>
    ELSE Append(NatStr(n \div 10), Digits[(n % 10) + 1])

\* str(n) of an int
PyStr(n) == IF n < 0 THEN <<"-">> \o NatStr(-n) ELSE NatStr(n)

(* ------------------------------- inputs ------------------------------- *)
\* Chart lines as f.readlines() returns them (each ends with its "\n").
BpmLine == <<"#", "B", "P", "M", ":", "1", "2", "0", "\n">>

BpmFracLine == <<"#", "B", "P", "M", ":", "1", "2", "0", ".", "5", "\n">>

GapLine == <<"#", "G", "A", "P", ":", "0", "\n">>

TitleLine == <<"#", "T", ":", "a", " ", "b", "\n">>

\* ": 0 4 0 la\n"     5 raw tokens
NoteLine == <<":", " ", "0", " ", "4", " ", "0", " ", "l", "a", "\n">>

\* ": 4 2 5  la\n"    6 raw tokens, the text " la\n" begins with a space
NoteLeadingSpace ==
    <<":", " ", "4", " ", "2", " ", "5", " ", " ", "l", "a", "\n">>

\* "* 4 2 0 la \n"    6 raw tokens, the text "la \n" ends with a space
NoteTrailingSpace ==
    <<"*", " ", "4", " ", "2", " ", "0", " ", "l", "a", " ", "\n">>

\* ": 0 4 0 a b c\n"  7 raw tokens
NoteSevenTokens ==
    <<":", " ", "0", " ", "4", " ", "0", " ", "a", " ", "b", " ", "c", "\n">>

\* "- 6\n"
BreakLine == <<"-", " ", "6", "\n">>

\* "E\n"
EndLine == <<"E", "\n">>

\* ": 0\n"           a note line cut short
ShortLine == <<":", " ", "0", "\n">>

LinePool ==
    { BpmLine, BpmFracLine, GapLine, TitleLine, NoteLine, NoteLeadingSpace,
      NoteTrailingSpace, NoteSevenTokens, BreakLine, EndLine, ShortLine }

\* A chart: nothing or the usual header (#BPM:120, #GAP:0), then at most
\* MaxLines lines of the pool in any order
Preambles == { <<>>, <<BpmLine, GapLine>> }

Charts ==
    { pre \o body : pre \in Preambles,
                    body \in UNION { [1..n -> LinePool] : n \in 0..MaxLines } }

\* The inference service's output: one (pitch, uncertainty) pair per frame.
\* "clear": every frame confident; "silent": none; "edge": confidence is
\* exactly the threshold on even frames and just below it on odd ones.
FramePitch(kind, i) == 400 + 20 * (i % 4) + (IF kind = "edge" THEN 100 * (i % 2) ELSE 0)

FrameUncertainty(kind, i) ==
    CASE kind = "clear" -> 10
      [] kind = "silent" -> 90
      [] kind = "edge" -> IF i % 2 = 0 THEN 100 - DefaultConfidence
                          ELSE 101 - DefaultConfidence

FrameSeries(kind, n) ==
    [ i \in 1..n |-> [ pitch |-> FramePitch(kind, i - 1),
                       uncertainty |-> FrameUncertainty(kind, i - 1) ] ]

FrameLengths == { MaxFrames - 3, MaxFrames }

ModelOutputs ==
    { FrameSeries(k, n) : k \in {"clear", "silent", "edge"}, n \in FrameLengths }

(* -------------------------------- state ------------------------------- *)
VARIABLES
    lines,          \* the karaoke file's lines (args.filename)
    confidence,     \* args.confidence, in hundredths
    pc,             \* the statement of __main__ that runs next
    outcome,        \* "running", "completed", or how the run aborted
    called,         \* the pipeline functions invoked so far, in order
    metaData,       \* loadFile's first result
    lyrics,         \* loadFile's second result
    audioData,      \* "none", "raw" (loadAudio) or "prepared" (prepareAudio)
    modelOutput,    \* analyze's result
    bpm, gap,       \* pitch's locals: <<>> is None, <<v>> a float in tenths
    tps,            \* pitch's local: <<>> unset, <<num, den>> the quotient
    lyricsPitched,  \* pitch's result
    dest            \* the output file: does it exist, and its content

vars ==
    << lines, confidence, pc, outcome, called, metaData, lyrics, audioData,
       modelOutput, bpm, gap, tps, lyricsPitched, dest >>

Init ==
    /\ lines \in Charts
    /\ confidence = DefaultConfidence
    /\ pc = "loadFile"
    /\ outcome = "running"
    /\ called = <<>>
    /\ metaData = <<>>
    /\ lyrics = <<>>
    /\ audioData = "none"
    /\ modelOutput = <<>>
    /\ bpm = <<>>
    /\ gap = <<>>
    /\ tps = <<>>
    /\ lyricsPitched = <<>>
    /\ dest = [exists |-> FALSE, content |-> <<>>]

\* exit(message) or an uncaught exception: the process ends
Abort(how) == pc' = "exit" /\ outcome' = how

(* ------------------------------ loadFile ------------------------------ *)
IsMetaLine(line) == line[1] = "#"

\* the first loop: the lines whose first character is "#"
MetaDataOf(ls) == SelectSeq(ls, IsMetaLine)

\* mutant: the last token replaces the fifth without the space
LoadLineNoSpace(line) ==
    LET split == Split(line)
    IN  IF Len(split) = 6
        THEN SubSeq(split, 1, 4) \o << split[6] >>
        ELSE split

\* the body of the second loop for one line: the 6-token case
LoadLine(line) ==
    LET split == Split(line)
    IN  IF Len(split) = 6
        THEN SubSeq(split, 1, 4) \o << <<" ">> \o split[6] >>
        ELSE split

\* mutant: the bound of the token count off by one
TooManyTokensOffByOne(line) == ~IsMetaLine(line) /\ Len(Split(line)) > 7

TooManyTokens(line) == ~IsMetaLine(line) /\ Len(Split(line)) > 6

RECURSIVE LyricsOf(_)
LyricsOf(ls) ==
    IF ls = <<>> THEN <<>>
    ELSE IF IsMetaLine(Head(ls)) THEN LyricsOf(Tail(ls))
    ELSE <<LoadLine(Head(ls))>> \o LyricsOf(Tail(ls))

\* mutant: the parser itself rejects a chart without #BPM or #GAP
loadFileCheckingTags ==
    /\ pc = "loadFile"
    /\ called' = Append(called, "loadFile")
    /\ \E read \in {"ok", "OSError", "error"} :
          IF read = "OSError" THEN
              Abort("KaraokeNotFound") /\ UNCHANGED <<metaData, lyrics>>
          ELSE IF read = "error" THEN
              Abort("KaraokeReadError") /\ UNCHANGED <<metaData, lyrics>>
          ELSE IF \E k \in 1..Len(lines) : TooManyTokens(lines[k]) THEN
              Abort("InvalidFormat") /\ UNCHANGED <<metaData, lyrics>>
          ELSE IF ~\E k \in 1..Len(lines) :
                      PySlice(lines[k], 0, 4) = <<"#", "B", "P", "M">> THEN
              Abort("NoBpmTag") /\ UNCHANGED <<metaData, lyrics>>
          ELSE IF ~\E k \in 1..Len(lines) :
                      PySlice(lines[k], 0, 4) = <<"#", "G", "A", "P">> THEN
              Abort("NoGapTag") /\ UNCHANGED <<metaData, lyrics>>
          ELSE
              /\ metaData' = MetaDataOf(lines)
              /\ lyrics' = LyricsOf(lines)
              /\ pc' = "loadAudio"
              /\ UNCHANGED outcome
    /\ UNCHANGED <<lines, confidence, audioData, modelOutput, bpm, gap, tps,
                   lyricsPitched, dest>>

loadFile ==
    /\ pc = "loadFile"
    /\ called' = Append(called, "loadFile")
    /\ \E read \in {"ok", "OSError", "error"} :
          IF read = "OSError" THEN
              Abort("KaraokeNotFound") /\ UNCHANGED <<metaData, lyrics>>
          ELSE IF read = "error" THEN
              Abort("KaraokeReadError") /\ UNCHANGED <<metaData, lyrics>>
          ELSE IF \E k \in 1..Len(lines) : TooManyTokens(lines[k]) THEN
              Abort("InvalidFormat") /\ UNCHANGED <<metaData, lyrics>>
          ELSE
              /\ metaData' = MetaDataOf(lines)
              /\ lyrics' = LyricsOf(lines)
              /\ pc' = "loadAudio"
              /\ UNCHANGED outcome
    /\ UNCHANGED <<lines, confidence, audioData, modelOutput, bpm, gap, tps,
                   lyricsPitched, dest>>

(* ------------------- loadAudio, prepareAudio, analyze ------------------ *)
loadAudio ==
    /\ pc = "loadAudio"
    /\ called' = Append(called, "loadAudio")
    /\ \E read \in {"ok", "OSError", "error"} :
          IF read = "OSError" THEN
              Abort("AudioNotFound") /\ UNCHANGED audioData
          ELSE IF read = "error" THEN
              Abort("AudioReadError") /\ UNCHANGED audioData
          ELSE
              audioData' = "raw" /\ pc' = "prepareAudio" /\ UNCHANGED outcome
    /\ UNCHANGED <<lines, confidence, metaData, lyrics, modelOutput, bpm, gap,
                   tps, lyricsPitched, dest>>

prepareAudio ==
    /\ pc = "prepareAudio"
    /\ called' = Append(called, "prepareAudio")
    /\ audioData' = "prepared"
    /\ pc' = "analyze"
    /\ UNCHANGED <<lines, confidence, outcome, metaData, lyrics, modelOutput,
                   bpm, gap, tps, lyricsPitched, dest>>

analyze ==
    /\ pc = "analyze"
    /\ called' = Append(called, "analyze")
    /\ modelOutput' \in ModelOutputs
    /\ pc' = "pitch"
    /\ UNCHANGED <<lines, confidence, outcome, metaData, lyrics, audioData,
                   bpm, gap, tps, lyricsPitched, dest>>

(* -------------------------------- pitch ------------------------------- *)
RECURSIVE ScanMeta(_, _, _)
\* the loop over metaData: the last #BPM / #GAP line wins; a value float()
\* rejects raises ValueError out of the loop
ScanMeta(md, b, g) ==
    IF md = <<>> THEN [err |-> "", bpm |-> b, gap |-> g]
    ELSE LET line == Head(md)
             key == PySlice(line, 0, 4)
             val == PyFloat(PySlice(line, 5, Len(line)))
         IN  IF key = <<"#", "B", "P", "M">> THEN
                 IF val = <<>> THEN [err |-> "ValueError", bpm |-> b, gap |-> g]
                 ELSE ScanMeta(Tail(md), val, g)
             ELSE IF key = <<"#", "G", "A", "P">> THEN
                 IF val = <<>> THEN [err |-> "ValueError", bpm |-> b, gap |-> g]
                 ELSE ScanMeta(Tail(md), b, val)
             ELSE ScanMeta(Tail(md), b, g)

\* tps = int(bpm)*4/60, as the quotient <<numerator, denominator>>
TicksPerSecond(bpmTenths) == <<Trunc(bpmTenths, 10) * 4, 60>>

\* int(((gap/1000) + tick/tps -+ 0.5/tps) * 1000/32), with halfTicks = 2*tick -+ 1
FrameIndex(gapTenths, halfTicks, t) ==
    Trunc(2 * t[1] * gapTenths + halfTicks * t[2] * 10000, 20 * FrameMs * t[1])

\* a slice bound as Python normalises it for a sequence of length n
SliceBound(i, n) ==
    IF i < 0 THEN (IF i + n < 0 THEN 0 ELSE i + n)
    ELSE IF i > n THEN n ELSE i

\* the 0-based indices that x[start:end] selects from a sequence of length n
SliceIndices(start, end, n) ==
    { i \in 0..(n - 1) : SliceBound(start, n) <= i /\ i < SliceBound(end, n) }

\* mutant: the threshold itself is excluded
ConfidentStrict(frame, threshold) == 100 - frame.uncertainty > threshold

\* confidence[i] >= args.confidence, with confidence = 1.0 - uncertainty
Confident(frame, threshold) == 100 - frame.uncertainty >= threshold

RECURSIVE SelectPitches(_, _, _, _)
\* pitch[start:end][confidence[start:end] >= args.confidence], in frame order
SelectPitches(frames, idx, i, threshold) ==
    IF i >= Len(frames) THEN <<>>
    ELSE (IF i \in idx /\ Confident(frames[i + 1], threshold)
          THEN <<frames[i + 1].pitch>> ELSE <<>>)
         \o SelectPitches(frames, idx, i + 1, threshold)

RECURSIVE Insert(_, _)
Insert(x, s) ==
    IF s = <<>> THEN <<x>>
    ELSE IF x <= Head(s) THEN <<x>> \o s
    ELSE <<Head(s)>> \o Insert(x, Tail(s))

RECURSIVE Sorted(_)
Sorted(s) == IF s = <<>> THEN <<>> ELSE Insert(Head(s), Sorted(Tail(s)))

\* np.median of a non-empty sequence
Median(s) ==
    LET t == Sorted(s)
        n == Len(t)
    IN  IF n % 2 = 1 THEN t[(n + 1) \div 2]
        ELSE (t[n \div 2] + t[n \div 2 + 1]) \div 2

\* cqt_bin = pitch * PT_SLOPE + PT_OFFSET; the frequency FMIN * 2^(cqt_bin/12)
\* is carried as its cqt bin
pitch2hz(p) == p * PT_SLOPE + PT_OFFSET

\* int(round(12 * log2(4*hz/55 * 2^(3/4)))) - 60
hz2note(hz) == ((hz + NoteOffset + 50000) \div 100000) - MidiShift

\* lines 166-173: the note number of the frames start..end-1
NoteOf(frames, start, end, threshold) ==
    LET pitches ==
            SelectPitches(frames, SliceIndices(start, end, Len(frames)), 0,
                          threshold)
    IN  IF Len(pitches) = 0 THEN 0 ELSE hz2note(pitch2hz(Median(pitches)))

\* one iteration of the loop over lyrics: the record appended, or the error
PitchEvent(line, gapTenths, t, frames, threshold) ==
    IF StartsWith(line[1], "-") THEN
        IF Len(line) < 2 THEN [err |-> "IndexError", rec |-> <<>>]
        ELSE [err |-> "", rec |-> <<line[1], line[2]>>]
    ELSE IF StartsWith(line[1], "E") THEN [err |-> "", rec |-> <<line[1]>>]
    ELSE IF Len(line) < 5 THEN [err |-> "InvalidLine", rec |-> <<>>]
    ELSE IF PyInt(line[2]) = <<>> THEN [err |-> "ValueError", rec |-> <<>>]
    ELSE IF t[1] = 0 THEN [err |-> "ZeroDivisionError", rec |-> <<>>]
    ELSE IF PyInt(line[3]) = <<>> THEN [err |-> "ValueError", rec |-> <<>>]
    ELSE LET tick == PyInt(line[2])[1]
             dur == PyInt(line[3])[1]
             start == FrameIndex(gapTenths, 2 * tick - 1, t)
             end == FrameIndex(gapTenths, 2 * (tick + dur) + 1, t)
             note == NoteOf(frames, start, end, threshold)
         IN  [err |-> "",
              rec |-> <<line[1], line[2], line[3], PyStr(note), line[5]>>]

RECURSIVE PitchLoop(_, _, _, _, _)
\* the loop over lyrics: stops at the first line that fails
PitchLoop(ls, gapTenths, t, frames, threshold) ==
    IF ls = <<>> THEN [err |-> "", out |-> <<>>]
    ELSE LET e == PitchEvent(Head(ls), gapTenths, t, frames, threshold)
         IN  IF e.err # "" THEN [err |-> e.err, out |-> <<>>]
             ELSE LET r == PitchLoop(Tail(ls), gapTenths, t, frames, threshold)
                  IN  IF r.err # "" THEN r
                      ELSE [err |-> "", out |-> <<e.rec>> \o r.out]

pitch ==
    /\ pc = "pitch"
    /\ called' = Append(called, "pitch")
    /\ LET m == ScanMeta(metaData, <<>>, <<>>)
       IN  IF m.err # "" THEN
               Abort(m.err) /\ UNCHANGED <<bpm, gap, tps, lyricsPitched>>
           ELSE IF m.bpm = <<>> THEN
               \* line 122: int(None) raises TypeError
               /\ Abort("TypeError")
               /\ bpm' = m.bpm /\ gap' = m.gap
               /\ UNCHANGED <<tps, lyricsPitched>>
           ELSE
               /\ bpm' = m.bpm /\ gap' = m.gap
               /\ tps' = TicksPerSecond(m.bpm[1])
               /\ IF m.bpm = <<>> THEN
                      \* lines 124-125, after line 122 has used bpm
                      Abort("NoBpmTag") /\ UNCHANGED lyricsPitched
                  ELSE IF m.gap = <<>> THEN
                      Abort("NoGapTag") /\ UNCHANGED lyricsPitched
                  ELSE LET r == PitchLoop(lyrics, m.gap[1], tps', modelOutput,
                                          confidence)
                       IN  IF r.err # "" THEN
                               Abort(r.err) /\ UNCHANGED lyricsPitched
                           ELSE /\ lyricsPitched' = r.out
                                /\ pc' = "writeFile"
                                /\ UNCHANGED outcome
    /\ UNCHANGED <<lines, confidence, metaData, lyrics, audioData, modelOutput,
                   dest>>

(* ------------------------------ writeFile ----------------------------- *)
IsShort(line) ==
    ~StartsWith(line[1], "-") /\ ~StartsWith(line[1], "E") /\ Len(line) < 5

\* one element of lyricsString
LyricsString(line) ==
    IF StartsWith(line[1], "-") THEN line[1] \o <<" ">> \o line[2]
    ELSE IF StartsWith(line[1], "E") THEN line[1]
    ELSE line[1] \o <<" ">> \o line[2] \o <<" ">> \o line[3] \o <<" ">>
         \o line[4] \o <<" ">> \o line[5]

\* mutant: the two writelines calls swapped
FileContentLyricsFirst(md, pitched) ==
    Flatten([k \in 1..Len(pitched) |-> LyricsString(pitched[k])]) \o Flatten(md)

\* writelines(metaData); writelines(lyricsString)
FileContent(md, pitched) ==
    Flatten(md) \o Flatten([k \in 1..Len(pitched) |-> LyricsString(pitched[k])])

writeFile ==
    /\ pc = "writeFile"
    /\ called' = Append(called, "writeFile")
    /\ IF \E k \in 1..Len(lyricsPitched) : IsShort(lyricsPitched[k]) THEN
           \* open(dest, "w") has run: the file exists and is empty
           /\ dest' = [exists |-> TRUE, content |-> <<>>]
           /\ Abort("InvalidLine")
       ELSE
           /\ dest' = [exists |-> TRUE,
                       content |-> FileContent(metaData, lyricsPitched)]
           /\ pc' = "done"
           /\ outcome' = "completed"
    /\ UNCHANGED <<lines, confidence, metaData, lyrics, audioData, modelOutput,
                   bpm, gap, tps, lyricsPitched>>

Next ==
    \/ loadFile
    \/ loadAudio
    \/ prepareAudio
    \/ analyze
    \/ pitch
    \/ writeFile

Spec == Init /\ [][Next]_vars

(* ------------------- vocabulary of the properties --------------------- *)
\* The chart format read directly off the characters of a line.
RECURSIVE HeaderLines(_)
HeaderLines(ls) ==
    IF ls = <<>> THEN <<>>
    ELSE (IF Head(Head(ls)) = "#" THEN <<Head(ls)>> ELSE <<>>)
         \o HeaderLines(Tail(ls))

RECURSIVE EventLines(_)
EventLines(ls) ==
    IF ls = <<>> THEN <<>>
    ELSE (IF Head(Head(ls)) # "#" THEN <<Head(ls)>> ELSE <<>>)
         \o EventLines(Tail(ls))

CountSpaces(line) == Cardinality({i \in 1..Len(line) : line[i] = " "})

\* the position of the n-th space of the line (0 for n = 0)
SpacePos(line, n) ==
    IF n = 0 THEN 0
    ELSE CHOOSE i \in 1..Len(line) :
            /\ line[i] = " "
            /\ Cardinality({j \in 1..i : line[j] = " "}) = n

\* what follows the n-th space
AfterSpaces(line, n) == SubSeq(line, SpacePos(line, n) + 1, Len(line))

\* the n-th field, n <= number of spaces
Field(line, n) == SubSeq(line, SpacePos(line, n - 1) + 1, SpacePos(line, n) - 1)

IsSungNote(line) == Head(line) \notin {"#", "-", "E"}

HasKey(ls, key) ==
    \E k \in 1..Len(ls) : Len(ls[k]) >= 4 /\ SubSeq(ls[k], 1, 4) = key

NoBpmLine == ~HasKey(lines, <<"#", "B", "P", "M">>)

NoGapLine == ~HasKey(lines, <<"#", "G", "A", "P">>)

SevenTokenLine ==
    \E k \in 1..Len(lines) : Head(lines[k]) # "#" /\ CountSpaces(lines[k]) >= 6

RECURSIVE OutLinesAcc(_, _, _)
OutLinesAcc(content, cur, acc) ==
    IF content = <<>> THEN (IF cur = <<>> THEN acc ELSE Append(acc, cur))
    ELSE IF Head(content) = "\n"
         THEN OutLinesAcc(Tail(content), <<>>, Append(acc, Append(cur, "\n")))
    ELSE OutLinesAcc(Tail(content), Append(cur, Head(content)), acc)

\* the output file read back line by line
OutLines == OutLinesAcc(dest.content, <<>>, <<>>)

Aborted == pc = "exit"

Invoked(f) == \E k \in 1..Len(called) : called[k] = f

\* the run was ended by the missing #BPM / #GAP line
MissingTagAbort ==
    /\ Aborted
    /\ \/ NoBpmLine /\ outcome \in {"TypeError", "NoBpmTag"}
       \/ NoGapLine /\ outcome = "NoGapTag"

(* ------------------------------- claims ------------------------------- *)
\* C1: a chart with a non-metadata line of 7 or more raw tokens, or without
\* a #BPM line, or without a #GAP line, never gets an output file: at every
\* point of the run the file does not exist and writeFile has not been
\* invoked, so whenever such a run has aborted nothing was created or written.
C1_NoOutputOnAbort ==
    (SevenTokenLine \/ NoBpmLine \/ NoGapLine)
        => ~dest.exists /\ dest.content = <<>> /\ ~Invoked("writeFile")

\* C1 witness: a chart with #BPM and #GAP was rejected for a 7-token line
C1_Witness ==
    /\ Aborted /\ outcome = "InvalidFormat"
    /\ SevenTokenLine /\ ~NoBpmLine /\ ~NoGapLine
    /\ ~dest.exists

\* C2 (as stated): a run on a chart without #BPM that reaches the tag check
\* ends in the 'No #BPM-Tag in header found!' exit, and one with #BPM but
\* without #GAP in the 'No #GAP-Tag in header found!' exit.
C2_MissingTagExit ==
    (Aborted /\ Invoked("pitch"))
        => /\ NoBpmLine => outcome = "NoBpmTag"
           /\ (~NoBpmLine /\ NoGapLine) => outcome = "NoGapTag"

\* C3 (as stated): when a run is ended by the missing #BPM / #GAP line, none
\* of loadAudio, prepareAudio, analyze has been invoked.
C3_DetectedBeforeAudio ==
    MissingTagAbort
        => ~Invoked("loadAudio") /\ ~Invoked("prepareAudio") /\ ~Invoked("analyze")

\* C3 (amended): a run is ended by the missing #BPM / #GAP line only in
\* pitch: loadFile, loadAudio, prepareAudio and analyze have all been invoked
\* before, and writeFile has not.
C3_DetectedInPitch ==
    outcome \in {"TypeError", "NoBpmTag", "NoGapTag"}
        => /\ called = <<"loadFile", "loadAudio", "prepareAudio", "analyze", "pitch">>
           /\ NoBpmLine \/ NoGapLine
           /\ ~dest.exists

\* C3 witness: a run ended by the missing #GAP line, after the audio work
C3_Witness ==
    /\ Aborted /\ outcome = "NoGapTag" /\ NoGapLine
    /\ Invoked("analyze") /\ modelOutput # <<>>

\* a run that wrote its output
Completed == pc = "done"

NumHeaders == Len(HeaderLines(lines))

\* the k-th note event as written to the output file
OutEvent(k) == OutLines[NumHeaders + k]

\* C4: the output of a successful run begins with exactly the input lines
\* whose first character is "#", each character for character and in the
\* input's order, and no line after them is a header line.
C4_MetadataRoundTrip ==
    Completed =>
        LET h == HeaderLines(lines)
            flat == Flatten(h)
        IN  /\ Len(dest.content) >= Len(flat)
            /\ SubSeq(dest.content, 1, Len(flat)) = flat
            /\ Len(OutLines) >= Len(h)
            /\ SubSeq(OutLines, 1, Len(h)) = h
            /\ \A k \in (Len(h) + 1)..Len(OutLines) : Head(OutLines[k]) # "#"

\* C4 witness: a successful run on a chart with a header line other than
\* #BPM / #GAP that comes after a note event
C4_Witness ==
    /\ Completed
    /\ \E i, j \in 1..Len(lines) :
          i < j /\ Head(lines[i]) # "#" /\ lines[j] = TitleLine

\* a sung-note line of 6 raw tokens whose 5th token is empty: its text
\* begins with a space
LeadingSpaceNote(line) ==
    /\ IsSungNote(line)
    /\ CountSpaces(line) = 5
    /\ SpacePos(line, 5) = SpacePos(line, 4) + 1

\* C5: for every sung note whose text begins with a space, the text written
\* to the output equals the text of the input line, leading space included.
C5_LosslessText ==
    Completed =>
        \A k \in 1..Len(EventLines(lines)) :
            LeadingSpaceNote(EventLines(lines)[k])
                => /\ CountSpaces(OutEvent(k)) >= 4
                   /\ AfterSpaces(OutEvent(k), 4)
                        = AfterSpaces(EventLines(lines)[k], 4)

\* C5 witness: a successful run wrote a note whose text begins with a space
C5_Witness ==
    /\ Completed
    /\ \E k \in 1..Len(EventLines(lines)) :
          /\ LeadingSpaceNote(EventLines(lines)[k])
          /\ Head(AfterSpaces(OutEvent(k), 4)) = " "

\* the frames pitch[start:end] selects for the note line, as the code maps it
MappedRange(line) ==
    LET tick == PyInt(Field(line, 2))[1]
        dur == PyInt(Field(line, 3))[1]
    IN  SliceIndices(FrameIndex(gap[1], 2 * tick - 1, tps),
                     FrameIndex(gap[1], 2 * (tick + dur) + 1, tps),
                     Len(modelOutput))

\* the frames of the range whose confidence reaches the threshold
ConfidentFrames(line) ==
    {i \in MappedRange(line) : 100 - modelOutput[i + 1].uncertainty >= confidence}

\* the k-th smallest pitch among the frames of sel, counted with repetition
KthPitch(sel, k) ==
    CHOOSE v \in {modelOutput[i + 1].pitch : i \in sel} :
        /\ Cardinality({i \in sel : modelOutput[i + 1].pitch < v}) < k
        /\ Cardinality({i \in sel : modelOutput[i + 1].pitch <= v}) >= k

\* the median of the pitches of the frames of sel
MedianPitch(sel) ==
    LET n == Cardinality(sel)
    IN  (KthPitch(sel, (n + 1) \div 2) + KthPitch(sel, n \div 2 + 1)) \div 2

Floor(n, d) == n \div d

\* the frames max(0, startFrame) <= i < min(N, endFrame) of the note line,
\* with startFrame and endFrame the floors of the two frame positions
ClampedRange(line) ==
    LET tick == PyInt(Field(line, 2))[1]
        dur == PyInt(Field(line, 3))[1]
        den == 20 * FrameMs * tps[1]
        startFrame ==
            Floor(2 * tps[1] * gap[1] + (2 * tick - 1) * tps[2] * 10000, den)
        endFrame ==
            Floor(2 * tps[1] * gap[1] + (2 * (tick + dur) + 1) * tps[2] * 10000,
                  den)
    IN  {i \in 0..(Len(modelOutput) - 1) : startFrame <= i /\ i < endFrame}

\* C7 (as stated): the frames sampled for every sung note are exactly those
\* with max(0, startFrame) <= i < min(N, endFrame): a negative startFrame is
\* clamped to 0 and selects no frame from the end of the series.
C7_RangeClamped ==
    Completed =>
        \A k \in 1..Len(EventLines(lines)) :
            IsSungNote(EventLines(lines)[k])
                => MappedRange(EventLines(lines)[k])
                     = ClampedRange(EventLines(lines)[k])

\* C8 (as stated): the ticks per second used equal bpmValue * 4 / 60 for the
\* value parsed from the #BPM line (bpm is held in tenths).
C8_TicksPerSecond ==
    tps # <<>> => tps[1] * 60 * 10 = bpm[1] * 4 * tps[2]

\* C9 (as stated): a non-metadata line of exactly 6 raw tokens t0..t5 is
\* loaded as the record t0, t1, t2, t3, t4 + " " + t5.
C9_SixTokensRejoined ==
    Invoked("loadAudio") =>
        /\ Len(lyrics) = Len(EventLines(lines))
        /\ \A k \in 1..Len(lyrics) :
              LET t == Split(EventLines(lines)[k])
              IN  Len(t) = 6
                    => lyrics[k] = <<t[1], t[2], t[3], t[4], t[5] \o <<" ">> \o t[6]>>

\* C10 (as stated): the output of a successful run holds one event per
\* non-metadata input line, in the input's order; a sung note keeps its type,
\* start and duration tokens and its text, a line break and an end marker
\* are written as they were read.
C10_EventsPreserved ==
    Completed =>
        /\ Len(OutLines) = NumHeaders + Len(EventLines(lines))
        /\ \A k \in 1..Len(EventLines(lines)) :
              LET line == EventLines(lines)[k]
              IN  IF IsSungNote(line)
                  THEN /\ CountSpaces(OutEvent(k)) >= 4
                       /\ \A f \in 1..3 : Field(OutEvent(k), f) = Field(line, f)
                       /\ AfterSpaces(OutEvent(k), 4) = AfterSpaces(line, 4)
                  ELSE OutEvent(k) = line

====
